---- MODULE Spec2Model ----
(***************************************************************************)
(* Model of the OpenAI-compatible provider adapter, OpenAiHandler          *)
(* (src/api/providers/openai.ts): client selection in the constructor, the *)
(* fire-and-forget priming of the model-id cache, createMessage (model id  *)
(* resolution, request shaping, stream re-emission) and listModels.        *)
(*                                                                         *)
(* JavaScript values are represented as follows.                           *)
(*   - An optional value (undefined or v) is a sequence of length 0 or 1:  *)
(*     None is <<>>, Some(v) is <<v>>.                                     *)
(*   - Strings that the code searches (model ids, URLs, API versions) are  *)
(*     sequences of one-character strings, so that includes() and          *)
(*     toLowerCase() are computed, not assumed.                            *)
(*   - Strings that the code only passes on (prompts, contents, the        *)
(*     reasoning effort) are TLA+ strings.                                 *)
(***************************************************************************)
EXTENDS Integers, Sequences, FiniteSets, TLC

VARIABLES
    options,          \* this.options, fixed at construction
    client,           \* this.client, the SDK client built by the constructor
    availableModels,  \* this.availableModels, the cached model ids
    init,             \* the initializeModelList() call the constructor started
    calls,            \* the createMessage calls made so far, in invocation order
    caller,           \* the caller: the invocations it will still make and
                      \* the conversations it sends
    server            \* the server: the chunks it will still deliver, the
                      \* chunks it streams and the answers of its listing

vars == <<options, client, availableModels, init, calls, caller, server>>

-----------------------------------------------------------------------------
(* Bounds of the model.                                                    *)

MaxCalls == 2

MaxChunks == 3

-----------------------------------------------------------------------------
(* Optional values and JavaScript strings.                                 *)

None == <<>>

Some(v) == <<v>>

IsSet(o) == o # None

\* a ?? b
Coalesce(o, d) == IF IsSet(o) THEN o[1] ELSE d

UpperCase == <<"A","B","C","D","E","F","G","H","I","J","K","L","M",
               "N","O","P","Q","R","S","T","U","V","W","X","Y","Z">>

LowerCase == <<"a","b","c","d","e","f","g","h","i","j","k","l","m",
               "n","o","p","q","r","s","t","u","v","w","x","y","z">>

LowerChar(c) ==
    IF \E i \in 1..Len(UpperCase) : UpperCase[i] = c
    THEN LowerCase[CHOOSE i \in 1..Len(UpperCase) : UpperCase[i] = c]
    ELSE c

\* String.prototype.toLowerCase
toLowerCase(s) == [i \in 1..Len(s) |-> LowerChar(s[i])]

\* String.prototype.includes (case-sensitive substring search)
includes(s, pat) ==
    \E i \in 1..(Len(s) - Len(pat) + 1) : SubSeq(s, i, i + Len(pat) - 1) = pat

-----------------------------------------------------------------------------
(* Literals of the source.                                                 *)

AzureMarker == <<"a","z","u","r","e",".","c","o","m">>

DeepseekReasonerPattern ==
    <<"d","e","e","p","s","e","e","k","-","r","e","a","s","o","n","e","r">>

O3MiniPattern == <<"o","3","-","m","i","n","i">>

NoModelsError == "No models available from the OpenAI-compatible server"

\* ../../shared/api: the fallback API version and the metadata defaults.
azureOpenAiDefaultApiVersion == <<"d","e","f","a","u","l","t">>

openAiModelInfoSaneDefaults == [temperature |-> 0]

-----------------------------------------------------------------------------
(* Input values.                                                           *)

GptId == <<"g","p","t","-","4">>

O3MiniId == O3MiniPattern

ReasonerId == DeepseekReasonerPattern

BothId == DeepseekReasonerPattern \o <<"-">> \o O3MiniPattern

UpperO3Id == <<"O","3","-","M","I","N","I">>

OpenAiUrl == <<"h","t","t","p","s",":","/","/","a","p","i",".","x",".","c","o","m">>

AzureUrl == <<"h","t","t","p","s",":","/","/","r",".","a","z","u","r","e",".","c","o","m">>

AzureUpperUrl == <<"H","T","T","P","S",":","/","/","R",".","A","z","u","r","e",".","C","O","M">>

NearAzureUrl == <<"h","t","t","p","s",":","/","/","a","z","u","r","e",".","c","o">>

ApiVersion == <<"2","0","2","4">>

-----------------------------------------------------------------------------
(* constructor: the client variant.                                        *)

\* this.options.openAiApiKey || ''
apiKey(opts) ==
    IF IsSet(opts.openAiApiKey) /\ opts.openAiApiKey[1] # ""
    THEN opts.openAiApiKey[1] ELSE ""

\* The same test without toLowerCase(): a case-sensitive search of the URL.
isAzureCaseSensitive(opts) ==
    \/ (IsSet(opts.azureApiVersion) /\ opts.azureApiVersion[1] # <<>>)
    \/ (IsSet(opts.openAiBaseUrl) /\ includes(opts.openAiBaseUrl[1], AzureMarker))

\* this.options.azureApiVersion || this.options.openAiBaseUrl?.toLowerCase().includes("azure.com")
isAzure(opts) ==
    \/ (IsSet(opts.azureApiVersion) /\ opts.azureApiVersion[1] # <<>>)
    \/ (IsSet(opts.openAiBaseUrl) /\ includes(toLowerCase(opts.openAiBaseUrl[1]), AzureMarker))

\* this.options.azureApiVersion || azureOpenAiDefaultApiVersion
apiVersion(opts) ==
    IF IsSet(opts.azureApiVersion) /\ opts.azureApiVersion[1] # <<>>
    THEN opts.azureApiVersion[1] ELSE azureOpenAiDefaultApiVersion

NewClient(opts) ==
    IF isAzure(opts)
    THEN [variant |-> "AzureOpenAI", baseURL |-> opts.openAiBaseUrl,
          apiKey |-> apiKey(opts), apiVersion |-> Some(apiVersion(opts))]
    ELSE [variant |-> "OpenAI", baseURL |-> opts.openAiBaseUrl,
          apiKey |-> apiKey(opts), apiVersion |-> None]

-----------------------------------------------------------------------------
(* listModels: the outcome of one call, given what client.models.list()    *)
(* did: kind "error" (the request rejected), "malformed" (a response       *)
(* without a data array, so that response.data.map throws) or "ok".        *)

\* The try block: does it throw, and what does it return otherwise.
listModelsTry(response) ==
    IF response.kind = "ok"
    THEN [threw |-> FALSE,
          value |-> [i \in 1..Len(response.data) |-> response.data[i].id]]
    ELSE [threw |-> TRUE, value |-> <<>>]

\* listModels without its catch clause: a failure rejects the promise.
listModelsUncaught(response) ==
    [raised |-> listModelsTry(response).threw,
     value |-> listModelsTry(response).value]

listModels(response) ==
    IF listModelsTry(response).threw
    THEN [raised |-> FALSE, value |-> <<>>]
    ELSE [raised |-> FALSE, value |-> listModelsTry(response).value]

-----------------------------------------------------------------------------
(* The message converters of ../transform (not part of this file).         *)

convertToOpenAiMessages(messages) ==
    [i \in 1..Len(messages) |->
        [role |-> messages[i].role, content |-> messages[i].content]]

RECURSIVE convertToR1Format(_)
\* Consecutive messages of one role are merged, their contents joined by a
\* newline, so that roles alternate.
convertToR1Format(messages) ==
    IF Len(messages) = 0 THEN <<>>
    ELSE LET front == convertToR1Format(SubSeq(messages, 1, Len(messages) - 1))
             last == messages[Len(messages)]
         IN  IF Len(front) > 0 /\ front[Len(front)].role = last.role
             THEN [front EXCEPT ![Len(front)].content = @ \o "\n" \o last.content]
             ELSE Append(front, [role |-> last.role, content |-> last.content])

-----------------------------------------------------------------------------
(* createMessage: resolution of the model id.                              *)

\* this.options.openAiModelId ?? ""
configuredModelId(opts) == Coalesce(opts.openAiModelId, <<>>)

\* A resolution that always takes the default from the cache.
needsDefaultModelAlways(opts) == TRUE

\* !modelId
needsDefaultModel(opts) == configuredModelId(opts) = <<>>

\* A refresh that keeps the cached list when the listing comes back empty.
refreshedModelsKeepOnEmpty(cache, listed) ==
    IF listed.raised \/ listed.value = <<>> THEN cache ELSE listed.value

\* A refresh that looks at the cache again after the wait and keeps a list
\* that arrived in the meantime.
refreshedModelsKeepIfFilled(cache, listed) ==
    IF listed.raised \/ cache # <<>> THEN cache ELSE listed.value

\* try { this.availableModels = await this.listModels() } catch { log }
refreshedModels(cache, listed) ==
    IF listed.raised THEN cache ELSE listed.value

\* try { this.availableModels = await this.listModels() }
\* catch { this.availableModels = [] }
primedModels(listed) ==
    IF listed.raised THEN <<>> ELSE listed.value

-----------------------------------------------------------------------------
(* createMessage: shaping of the request.                                  *)

isDeepseekReasoner(modelId) == includes(modelId, DeepseekReasonerPattern)

\* this.options.openAiModelInfo?.isR1FormatRequired ?? false
isR1FormatRequired(opts) ==
    IF IsSet(opts.openAiModelInfo)
    THEN Coalesce(opts.openAiModelInfo[1].isR1FormatRequired, FALSE)
    ELSE FALSE

isO3Mini(modelId) == includes(modelId, O3MiniPattern)

StandardMessages(role, systemPrompt, messages) ==
    <<[role |-> role, content |-> systemPrompt]>> \o convertToOpenAiMessages(messages)

R1Messages(systemPrompt, messages) ==
    convertToR1Format(<<[role |-> "user", content |-> systemPrompt]>> \o messages)

\* The two overrides in the opposite order: the R1 reshaping is applied last.
openAiMessagesR1Last(opts, modelId, systemPrompt, messages) ==
    IF isDeepseekReasoner(modelId) \/ isR1FormatRequired(opts)
    THEN R1Messages(systemPrompt, messages)
    ELSE IF isO3Mini(modelId)
         THEN StandardMessages("developer", systemPrompt, messages)
         ELSE StandardMessages("system", systemPrompt, messages)

\* The R1 reshaping decided by the metadata flag alone.
openAiMessagesFlagOnly(opts, modelId, systemPrompt, messages) ==
    IF isO3Mini(modelId)
    THEN StandardMessages("developer", systemPrompt, messages)
    ELSE IF isR1FormatRequired(opts)
         THEN R1Messages(systemPrompt, messages)
         ELSE StandardMessages("system", systemPrompt, messages)

\* openAiMessages as it stands when the request is built: the o3-mini
\* assignment comes after the R1 one and replaces its result.
openAiMessages(opts, modelId, systemPrompt, messages) ==
    IF isO3Mini(modelId)
    THEN StandardMessages("developer", systemPrompt, messages)
    ELSE IF isDeepseekReasoner(modelId) \/ isR1FormatRequired(opts)
         THEN R1Messages(systemPrompt, messages)
         ELSE StandardMessages("system", systemPrompt, messages)

\* this.options.openAiModelInfo?.temperature ?? openAiModelInfoSaneDefaults.temperature,
\* then undefined for o3-mini
temperature(opts, modelId) ==
    IF isO3Mini(modelId) THEN None
    ELSE IF IsSet(opts.openAiModelInfo)
         THEN Some(Coalesce(opts.openAiModelInfo[1].temperature,
                            openAiModelInfoSaneDefaults.temperature))
         ELSE Some(openAiModelInfoSaneDefaults.temperature)

\* this.options.o3MiniReasoningEffort || "medium", for o3-mini only
reasoningEffort(opts, modelId) ==
    IF isO3Mini(modelId)
    THEN IF IsSet(opts.o3MiniReasoningEffort) /\ opts.o3MiniReasoningEffort[1] # ""
         THEN Some(opts.o3MiniReasoningEffort[1]) ELSE Some("medium")
    ELSE None

\* The limit forwarded whenever it is truthy, whatever its sign.
maxTokensAnySign(opts) ==
    IF /\ IsSet(opts.openAiModelInfo)
       /\ IsSet(opts.openAiModelInfo[1].maxTokens)
       /\ opts.openAiModelInfo[1].maxTokens[1] # 0
    THEN Some(opts.openAiModelInfo[1].maxTokens[1])
    ELSE None

\* openAiModelInfo?.maxTokens && openAiModelInfo.maxTokens > 0
maxTokens(opts) ==
    IF /\ IsSet(opts.openAiModelInfo)
       /\ IsSet(opts.openAiModelInfo[1].maxTokens)
       /\ opts.openAiModelInfo[1].maxTokens[1] # 0
       /\ opts.openAiModelInfo[1].maxTokens[1] > 0
    THEN Some(opts.openAiModelInfo[1].maxTokens[1])
    ELSE None

\* The argument of this.client.chat.completions.create
ChatRequest(opts, modelId, systemPrompt, messages) ==
    [model |-> modelId,
     messages |-> openAiMessages(opts, modelId, systemPrompt, messages),
     temperature |-> temperature(opts, modelId),
     max_tokens |-> maxTokens(opts),
     reasoning_effort |-> reasoningEffort(opts, modelId),
     stream |-> TRUE,
     stream_options |-> [include_usage |-> TRUE]]

-----------------------------------------------------------------------------
(* createMessage: the events of one chunk of the stream.                   *)

\* chunk.choices[0]?.delta
Delta(chunk) == IF Len(chunk.choices) > 0 THEN chunk.choices[1].delta ELSE None

TextEvents(chunk) ==
    LET delta == Delta(chunk)
    IN  IF IsSet(delta) /\ IsSet(delta[1].content) /\ delta[1].content[1] # ""
        THEN <<[type |-> "text", text |-> delta[1].content[1]]>>
        ELSE <<>>

ReasoningEvents(chunk) ==
    LET delta == Delta(chunk)
    IN  IF /\ IsSet(delta)
           /\ IsSet(delta[1].reasoning_content)
           /\ delta[1].reasoning_content[1] # ""
        THEN <<[type |-> "reasoning", reasoning |-> delta[1].reasoning_content[1]]>>
        ELSE <<>>

UsageEvents(chunk) ==
    IF IsSet(chunk.usage)
    THEN <<[type |-> "usage",
            inputTokens |-> Coalesce(chunk.usage[1].prompt_tokens, 0),
            outputTokens |-> Coalesce(chunk.usage[1].completion_tokens, 0)]>>
    ELSE <<>>

\* The three tests chained with else: at most one event for a chunk.
chunkEventsElseIf(chunk) ==
    IF TextEvents(chunk) # <<>> THEN TextEvents(chunk)
    ELSE IF ReasoningEvents(chunk) # <<>> THEN ReasoningEvents(chunk)
    ELSE UsageEvents(chunk)

\* The body of the for-await loop: what one chunk makes the generator yield.
chunkEvents(chunk) ==
    TextEvents(chunk) \o ReasoningEvents(chunk) \o UsageEvents(chunk)

-----------------------------------------------------------------------------
(* The environment: configurations, server responses, caller inputs.       *)

DefaultOptions ==
    [openAiBaseUrl |-> None, openAiApiKey |-> None, azureApiVersion |-> None,
     openAiModelId |-> None, openAiModelInfo |-> None,
     o3MiniReasoningEffort |-> None]

ModelInfos ==
    {None} \cup
    {Some([isR1FormatRequired |-> r, temperature |-> t, maxTokens |-> m]) :
        r \in {None, Some(TRUE), Some(FALSE)},
        t \in {None, Some(1)},
        m \in {None, Some(-1), Some(0), Some(4096)}}

\* ChatCompletionReasoningEffort, or unset
ReasoningEfforts == {None, Some("low"), Some("medium"), Some("high")}

\* Configurations that differ in the explicit model id only.
ModelIdOptions ==
    {[DefaultOptions EXCEPT !.openAiModelId = m] :
        m \in {None, Some(<<>>), Some(GptId)}}

\* Configurations that differ in what shapes the request.
ShapeOptions ==
    {[DefaultOptions EXCEPT !.openAiModelId = m, !.openAiModelInfo = i,
                            !.o3MiniReasoningEffort = e] :
        m \in {None, Some(GptId), Some(O3MiniId), Some(ReasonerId),
               Some(BothId), Some(UpperO3Id)},
        i \in ModelInfos, e \in ReasoningEfforts}

\* Configurations that differ in what selects the client.
ClientOptions ==
    {[DefaultOptions EXCEPT !.openAiBaseUrl = u, !.azureApiVersion = v,
                            !.openAiApiKey = k, !.openAiModelId = m] :
        u \in {None, Some(OpenAiUrl), Some(AzureUrl), Some(AzureUpperUrl),
               Some(NearAzureUrl)},
        v \in {None, Some(<<>>), Some(ApiVersion)},
        k \in {None, Some(""), Some("sk-1")},
        m \in {None, Some(GptId)}}

ServerModel(id) == [id |-> id, object |-> "model"]

ListOk(ids) == [kind |-> "ok", data |-> [i \in 1..Len(ids) |-> ServerModel(ids[i])]]

\* What client.models.list() can do.
ListResponses ==
    {[kind |-> "error", data |-> <<>>], [kind |-> "malformed", data |-> <<>>]}
    \cup
    {ListOk(ids) :
        ids \in {<<>>, <<GptId>>, <<ReasonerId, GptId>>, <<O3MiniId, GptId>>,
                 <<BothId>>}}

RaceListResponses ==
    {[kind |-> "error", data |-> <<>>], ListOk(<<>>), ListOk(<<O3MiniId>>),
     ListOk(<<ReasonerId, GptId>>)}

SystemPrompts == {"You are Cline."}

ShortConversation == <<[role |-> "user", content |-> "hi"]>>

Conversations ==
    {<<>>,
     ShortConversation,
     <<[role |-> "user", content |-> "a"], [role |-> "user", content |-> "b"],
       [role |-> "assistant", content |-> "c"]>>}

ChunkOf(delta, usage) ==
    [choices |-> IF delta = None THEN <<>> ELSE <<[delta |-> delta]>>,
     usage |-> usage]

HelloChunk == ChunkOf(Some([content |-> Some("Hello"), reasoning_content |-> None]), None)

\* Chunks of the response stream.
Chunks ==
    {HelloChunk,
     ChunkOf(Some([content |-> None, reasoning_content |-> Some("thinking")]), None),
     ChunkOf(None, Some([prompt_tokens |-> Some(10), completion_tokens |-> Some(5)])),
     ChunkOf(Some([content |-> Some(""), reasoning_content |-> Some("")]), None),
     ChunkOf(Some([content |-> Some("Hi"), reasoning_content |-> Some("hm")]),
             Some([prompt_tokens |-> None, completion_tokens |-> Some(7)])),
     [choices |-> <<[delta |-> None]>>, usage |-> None]}

-----------------------------------------------------------------------------
(* The state after construction.                                           *)

\* new OpenAiHandler(opts): the client is built and initializeModelList() has
\* run up to its await, so the priming listing is in flight.
Constructed(opts) ==
    /\ options = opts
    /\ client = NewClient(opts)
    /\ availableModels = <<>>
    /\ init = [pc |-> "listing", response |-> None, listed |-> None]
    /\ calls = <<>>

\* Concurrent calls on adapters that differ in the explicit model id; the
\* listing fails, is empty or returns one of two lists with different heads.
Init ==
    /\ \E opts \in ModelIdOptions : Constructed(opts)
    /\ caller = [callsLeft |-> MaxCalls, conversations |-> {ShortConversation}]
    /\ server = [chunksLeft |-> 1, chunks |-> {HelloChunk},
                 listResponses |-> RaceListResponses]

\* One call on adapters of every request-shaping configuration.
InitShape ==
    /\ \E opts \in ShapeOptions : Constructed(opts)
    /\ caller = [callsLeft |-> 1, conversations |-> Conversations]
    /\ server = [chunksLeft |-> 1, chunks |-> {HelloChunk},
                 listResponses |-> ListResponses]

\* One call on adapters of every client configuration.
InitClient ==
    /\ \E opts \in ClientOptions : Constructed(opts)
    /\ caller = [callsLeft |-> 1, conversations |-> {ShortConversation}]
    /\ server = [chunksLeft |-> 1, chunks |-> {HelloChunk},
                 listResponses |-> RaceListResponses]

\* One call whose response stream has up to MaxChunks chunks of every kind;
\* the listing answers in every way.
InitStream ==
    /\ \E opts \in ModelIdOptions : Constructed(opts)
    /\ caller = [callsLeft |-> 1, conversations |-> {ShortConversation}]
    /\ server = [chunksLeft |-> MaxChunks, chunks |-> Chunks,
                 listResponses |-> ListResponses]

-----------------------------------------------------------------------------
(* Steps.  A step runs from one await (or the call) to the next.           *)

\* initializeModelList / listModels: client.models.list() settles and
\* listModels returns to initializeModelList.
InitListModelsReturns ==
    /\ init.pc = "listing"
    /\ \E response \in server.listResponses :
         init' = [pc |-> "listed", response |-> Some(response),
                  listed |-> Some(listModels(response))]
    /\ UNCHANGED <<options, client, availableModels, calls, caller, server>>

\* initializeModelList resumes after its await and assigns the cache.
InitializeModelListResumes ==
    /\ init.pc = "listed"
    /\ availableModels' = primedModels(init.listed[1])
    /\ init' = [init EXCEPT !.pc = "done"]
    /\ UNCHANGED <<options, client, calls, caller, server>>

NewCall(systemPrompt, messages) ==
    [pc |-> "new", systemPrompt |-> systemPrompt, messages |-> messages,
     sent |-> <<>>, response |-> None, listed |-> None, request |-> None,
     chunks |-> <<>>, events |-> <<>>, error |-> ""]

\* The call issues client.chat.completions.create for modelId.
Requesting(call, modelId) ==
    [call EXCEPT !.pc = "streaming",
                 !.sent = Append(@, "chat.completions.create"),
                 !.request = Some(ChatRequest(options, modelId,
                                              call.systemPrompt, call.messages))]

\* The rest of model resolution once the cache is as it will be read.
Resolved(call, cache) ==
    IF Len(cache) > 0
    THEN Requesting(call, cache[1])
    ELSE [call EXCEPT !.pc = "failed", !.error = NoModelsError]

\* createMessage is called and runs to its first await.  A retry by the
\* withRetry decorator is one more invocation.
CreateMessage ==
    /\ caller.callsLeft > 0
    /\ caller' = [caller EXCEPT !.callsLeft = @ - 1]
    /\ \E systemPrompt \in SystemPrompts, messages \in caller.conversations :
         LET call == NewCall(systemPrompt, messages)
         IN  calls' = Append(calls,
                 IF ~needsDefaultModel(options)
                 THEN Requesting(call, configuredModelId(options))
                 ELSE IF Len(availableModels) = 0
                      THEN [call EXCEPT !.pc = "listing",
                                        !.sent = Append(@, "models.list")]
                      ELSE Resolved(call, availableModels))
    /\ UNCHANGED <<options, client, availableModels, init, server>>

\* createMessage / listModels: client.models.list() settles and listModels
\* returns to createMessage.
ListModelsReturns(c) ==
    /\ calls[c].pc = "listing"
    /\ \E response \in server.listResponses :
         calls' = [calls EXCEPT ![c].pc = "listed",
                                ![c].response = Some(response),
                                ![c].listed = Some(listModels(response))]
    /\ UNCHANGED <<options, client, availableModels, init, caller, server>>

\* createMessage resumes after its await of listModels: it assigns the cache,
\* reads it and either issues the request or throws.
CreateMessageResumes(c) ==
    /\ calls[c].pc = "listed"
    /\ availableModels' = refreshedModels(availableModels, calls[c].listed[1])
    /\ calls' = [calls EXCEPT ![c] = Resolved(calls[c], availableModels')]
    /\ UNCHANGED <<options, client, init, caller, server>>

\* The stream delivers a chunk and the generator yields its events.
StreamChunk(c) ==
    /\ calls[c].pc = "streaming"
    /\ server.chunksLeft > 0
    /\ server' = [server EXCEPT !.chunksLeft = @ - 1]
    /\ \E chunk \in server.chunks :
         calls' = [calls EXCEPT ![c].chunks = Append(@, chunk),
                                ![c].events = @ \o chunkEvents(chunk)]
    /\ UNCHANGED <<options, client, availableModels, init, caller>>

\* The stream ends and the generator returns.
StreamEnds(c) ==
    /\ calls[c].pc = "streaming"
    /\ calls' = [calls EXCEPT ![c].pc = "done"]
    /\ UNCHANGED <<options, client, availableModels, init, caller, server>>

\* The request or the stream fails and the error propagates to the caller.
StreamFails(c) ==
    /\ calls[c].pc = "streaming"
    /\ calls' = [calls EXCEPT ![c].pc = "error", ![c].error = "transport"]
    /\ UNCHANGED <<options, client, availableModels, init, caller, server>>

Next ==
    \/ InitListModelsReturns
    \/ InitializeModelListResumes
    \/ CreateMessage
    \/ \E c \in 1..Len(calls) : ListModelsReturns(c)
    \/ \E c \in 1..Len(calls) : CreateMessageResumes(c)
    \/ \E c \in 1..Len(calls) : StreamChunk(c)
    \/ \E c \in 1..Len(calls) : StreamEnds(c)
    \/ \E c \in 1..Len(calls) : StreamFails(c)

Spec == Init /\ [][Next]_vars

SpecShape == InitShape /\ [][Next]_vars

SpecClient == InitClient /\ [][Next]_vars

SpecStream == InitStream /\ [][Next]_vars

-----------------------------------------------------------------------------
(* Properties.                                                             *)

CallIds == 1..Len(calls)

\* The configuration names no model: the id is unset or the empty string.
NoExplicitModelId == options.openAiModelId \in {None, Some(<<>>)}

\* The call has resumed after the listing it started.
Relisted(call) == call.response # None /\ call.pc \notin {"listing", "listed"}

\* The listing request failed or listed nothing.
ListedNothing(response) == response.kind # "ok" \/ response.data = <<>>

\* C1: a createMessage call without explicit model id that found the cache
\* empty and whose own listing failed or came back empty has thrown the
\* "No models available" error, has issued no chat-completion request, and
\* the listing is the only request it made.
C1_NoModelsAbortsBeforeRequest ==
    \A c \in CallIds :
        (/\ NoExplicitModelId
         /\ Relisted(calls[c])
         /\ ListedNothing(calls[c].response[1]))
        => /\ calls[c].pc = "failed"
           /\ calls[c].error = NoModelsError
           /\ calls[c].request = None
           /\ calls[c].sent = <<"models.list">>

\* A call has failed after a listing error although the priming had, during
\* the wait, stored a non-empty list (which the call's assignment replaced).
C1_Witness ==
    /\ NoExplicitModelId
    /\ init.pc = "done" /\ init.listed[1].value # <<>>
    /\ \E c \in CallIds :
         /\ calls[c].pc = "failed"
         /\ calls[c].response = Some([kind |-> "error", data |-> <<>>])

\* C2: a createMessage call without explicit model id that found the cache
\* empty and whose own listing returned a non-empty list L has issued its
\* chat-completion request for L[0].
C2_FirstListedIdIsUsed ==
    \A c \in CallIds :
        (/\ NoExplicitModelId
         /\ Relisted(calls[c])
         /\ ~ListedNothing(calls[c].response[1]))
        => /\ calls[c].request # None
           /\ calls[c].request[1].model = calls[c].response[1].data[1].id

\* The first call listed deepseek-reasoner first and asked for it, while the
\* priming completed with another list during that call's wait: the cache
\* holds the call's list, so the priming assigned before the call did.
C2_Witness ==
    /\ NoExplicitModelId
    /\ init.pc = "done" /\ init.listed[1].value = <<O3MiniId>>
    /\ availableModels = <<ReasonerId, GptId>>
    /\ Len(calls) = 1
    /\ calls[1].response = Some(ListOk(<<ReasonerId, GptId>>))
    /\ calls[1].request # None /\ calls[1].request[1].model = ReasonerId

\* The conversation in the standard layout after a leading instruction of
\* the given role.
IsStandardLayout(role, call, sentMessages) ==
    /\ Len(sentMessages) = Len(call.messages) + 1
    /\ sentMessages[1] = [role |-> role, content |-> call.systemPrompt]
    /\ \A i \in 1..Len(call.messages) :
         sentMessages[i + 1] = [role |-> call.messages[i].role,
                                content |-> call.messages[i].content]

IsR1Layout(call, sentMessages) ==
    /\ sentMessages = convertToR1Format(
           <<[role |-> "user", content |-> call.systemPrompt]>> \o call.messages)
    /\ \A i \in 1..Len(sentMessages) :
         sentMessages[i].role \notin {"system", "developer"}

\* C4 as stated: every request for a model id containing "deepseek-reasoner"
\* carries its messages in the R1 layout.
C4_Original_ReasonerUsesR1Layout ==
    \A c \in CallIds :
        (/\ calls[c].request # None
         /\ includes(calls[c].request[1].model, DeepseekReasonerPattern))
        => IsR1Layout(calls[c], calls[c].request[1].messages)

\* C4 amended: every request for a model id that contains "deepseek-reasoner"
\* and does not contain "o3-mini" carries its messages in the R1 layout.
C4_ReasonerNotO3MiniUsesR1Layout ==
    \A c \in CallIds :
        (/\ calls[c].request # None
         /\ includes(calls[c].request[1].model, DeepseekReasonerPattern)
         /\ ~includes(calls[c].request[1].model, O3MiniPattern))
        => IsR1Layout(calls[c], calls[c].request[1].messages)

\* A request went out for "deepseek-reasoner", without the metadata flag,
\* for a conversation that opens with two user messages.
C4_Witness ==
    /\ options.openAiModelId = Some(ReasonerId)
    /\ options.openAiModelInfo = None
    /\ \E c \in CallIds :
         /\ calls[c].request # None
         /\ Len(calls[c].messages) = 3
         /\ Len(calls[c].request[1].messages) = 2

\* What the claim says one chunk yields: a text event iff its content delta
\* is non-empty, then a reasoning event iff its reasoning content is present
\* and non-empty, then a usage event iff it carries usage.
ExpectedChunkEvents(chunk) ==
    LET d == IF chunk.choices = <<>> THEN None ELSE chunk.choices[1].delta
        hasText == d # None /\ d[1].content \notin {None, Some("")}
        hasReasoning == d # None /\ d[1].reasoning_content \notin {None, Some("")}
        count(n) == IF n = None THEN 0 ELSE n[1]
    IN  (IF hasText THEN <<[type |-> "text", text |-> d[1].content[1]]>> ELSE <<>>)
        \o (IF hasReasoning
            THEN <<[type |-> "reasoning", reasoning |-> d[1].reasoning_content[1]]>>
            ELSE <<>>)
        \o (IF chunk.usage # None
            THEN <<[type |-> "usage",
                    inputTokens |-> count(chunk.usage[1].prompt_tokens),
                    outputTokens |-> count(chunk.usage[1].completion_tokens)]>>
            ELSE <<>>)

RECURSIVE ExpectedEvents(_)
ExpectedEvents(chunks) ==
    IF chunks = <<>> THEN <<>>
    ELSE ExpectedChunkEvents(Head(chunks)) \o ExpectedEvents(Tail(chunks))

ExampleChunks ==
    <<ChunkOf(Some([content |-> Some("Hello"), reasoning_content |-> None]), None),
      ChunkOf(Some([content |-> None, reasoning_content |-> Some("thinking")]), None),
      ChunkOf(None, Some([prompt_tokens |-> Some(10), completion_tokens |-> Some(5)]))>>

ExampleEvents ==
    <<[type |-> "text", text |-> "Hello"],
      [type |-> "reasoning", reasoning |-> "thinking"],
      [type |-> "usage", inputTokens |-> 10, outputTokens |-> 5]>>

\* C5: the events a createMessage call has yielded are the concatenation, in
\* chunk order, of the events of the chunks received (text, then reasoning,
\* then usage, each iff present), with nothing added when the stream has
\* ended; the chunks "Hello", "thinking", usage 10/5 yield exactly text,
\* reasoning, usage(10,5).
C5_EventsFollowChunks ==
    \A c \in CallIds :
        /\ calls[c].events = ExpectedEvents(calls[c].chunks)
        /\ calls[c].chunks = ExampleChunks => calls[c].events = ExampleEvents

\* A stream of the three example chunks has ended.
C5_Witness ==
    \E c \in CallIds :
        /\ calls[c].pc = "done"
        /\ calls[c].chunks = ExampleChunks
        /\ Len(calls[c].events) = 3

\* C6: once the cached model list is non-empty it never becomes empty again.
C6_CacheNeverEmptiedAgain ==
    [][availableModels # <<>> => availableModels' # <<>>]_vars

\* What the claim says listModels returns for a response.
ExpectedListing(response) ==
    IF response.kind = "ok"
    THEN [i \in 1..Len(response.data) |-> response.data[i].id]
    ELSE <<>>

ReturnedAsExpected(call) ==
    call.listed # None =>
        /\ ~call.listed[1].raised
        /\ call.listed[1].value = ExpectedListing(call.response[1])

\* C7: every listModels call that has returned did not raise and returned
\* the listed ids in server order, or the empty list when the listing
\* failed; and the priming, when its listing failed, leaves the cache empty
\* as it completes.
C7_ListModelsNeverRaises ==
    /\ [](ReturnedAsExpected(init) /\ \A c \in CallIds : ReturnedAsExpected(calls[c]))
    /\ [][(init.pc = "listed" /\ init'.pc = "done" /\ init.response[1].kind # "ok")
            => availableModels' = <<>>]_vars

\* The priming completed after a malformed response and left the cache
\* empty, and a call's listing returned two ids.
C7_Witness ==
    /\ init.pc = "done"
    /\ init.response = Some([kind |-> "malformed", data |-> <<>>])
    /\ availableModels = <<>>
    /\ \E c \in CallIds :
         /\ calls[c].pc = "listed"
         /\ calls[c].listed[1].value = <<ReasonerId, GptId>>

\* The configured metadata maxTokens, None when absent.
ConfiguredMaxTokens ==
    IF options.openAiModelInfo = None THEN None
    ELSE options.openAiModelInfo[1].maxTokens

\* C8: a request carries max_tokens iff the configured maxTokens is a
\* positive number, and then that value; in every shaping branch.
C8_MaxTokensOnlyIfPositive ==
    \A c \in CallIds :
        calls[c].request # None =>
            calls[c].request[1].max_tokens =
                IF ConfiguredMaxTokens # None /\ ConfiguredMaxTokens[1] > 0
                THEN ConfiguredMaxTokens
                ELSE None

\* A developer-role (o3-mini) request carries the configured positive limit.
C8_Witness ==
    /\ ConfiguredMaxTokens = Some(4096)
    /\ \E c \in CallIds :
         /\ calls[c].request # None
         /\ calls[c].request[1].messages[1].role = "developer"
         /\ calls[c].request[1].max_tokens = Some(4096)

\* A non-empty API version is configured.
VersionConfigured == options.azureApiVersion \notin {None, Some(<<>>)}

ClientIs(azure) ==
    /\ client.variant = IF azure THEN "AzureOpenAI" ELSE "OpenAI"
    /\ client.apiVersion =
          IF ~azure THEN None
          ELSE IF VersionConfigured THEN options.azureApiVersion
          ELSE Some(azureOpenAiDefaultApiVersion)

\* C9 as stated: the client is the Azure variant iff an API version is
\* configured or the base URL contains "azure.com", with the configured
\* version or else the default one; at construction and ever after.
C9_Original_AzureIffVersionOrMarker ==
    ClientIs(\/ VersionConfigured
             \/ (options.openAiBaseUrl # None
                 /\ includes(options.openAiBaseUrl[1], AzureMarker)))

\* C9 amended: the client is the Azure variant iff a non-empty API version is
\* configured or the base URL contains "azure.com" in any letter case, with
\* the configured version or else the default one; at construction and ever
\* after.
C9_AzureIffVersionOrMarkerAnyCase ==
    ClientIs(\/ VersionConfigured
             \/ (options.openAiBaseUrl # None
                 /\ includes(toLowerCase(options.openAiBaseUrl[1]), AzureMarker)))

\* An adapter built for an upper-case Azure URL without API version has the
\* Azure client with the default version, still so after a call has ended.
C9_Witness ==
    /\ options.openAiBaseUrl = Some(AzureUpperUrl)
    /\ options.azureApiVersion = None
    /\ client.variant = "AzureOpenAI"
    /\ client.apiVersion = Some(azureOpenAiDefaultApiVersion)
    /\ \E c \in CallIds : calls[c].pc = "done"

\* A non-empty explicit model id is configured.
ExplicitModelId == options.openAiModelId \notin {None, Some(<<>>)}

\* C10: with a non-empty explicit model id, every createMessage call sends
\* one request, the chat completion for exactly that id, never a listing,
\* and no step of a call changes the cached model list.
C10_ExplicitIdBypassesCache ==
    /\ [](ExplicitModelId =>
            \A c \in CallIds :
                /\ calls[c].sent = <<"chat.completions.create">>
                /\ calls[c].response = None
                /\ calls[c].request # None
                /\ calls[c].request[1].model = options.openAiModelId[1])
    /\ [][(ExplicitModelId /\ calls' # calls) => availableModels' = availableModels]_vars

\* With "gpt-4" configured, two calls have asked for "gpt-4", one of them
\* still streaming, while the cache holds a list without "gpt-4".
C10_Witness ==
    /\ options.openAiModelId = Some(GptId)
    /\ availableModels = <<O3MiniId>>
    /\ Len(calls) = 2
    /\ calls[1].pc = "done"
    /\ calls[2].pc = "streaming"
    /\ calls[2].request[1].model = GptId

====
